---------------------------- MODULE Spec2Model ----------------------------
(***************************************************************************)
(* aiy.voice.audio: the command builders (arecord, aplay), the module      *)
(* level record/play helpers, Recorder, Player, FilePlayer and BytesPlayer.*)
(*                                                                         *)
(* One behaviour exercises one object: Init is the state right after the   *)
(* construction of a Recorder, a BytesPlayer or a FilePlayer, or the       *)
(* freshly imported module (obj = "module") whose functions are called.    *)
(* Child processes are the rows of procs; a thread is a program counter.   *)
(***************************************************************************)
EXTENDS Integers, Sequences, FiniteSets, TLC

(* ------------------------------ bounds -------------------------------- *)

\* record() calls, with any arguments, made on the Recorder of SpecRecord
MaxRecords == 1
\* record() / play() / popen() calls made on the instance of SpecJoin
MaxRuns == 2
\* non-empty chunks a capture stream delivers before its zero-length read
MaxStream == 2
\* largest num_chunks passed to record()
MaxChunks == 2
\* push() calls made in a behaviour
MaxPush == 3

(* --------------------------- Python values ---------------------------- *)

\* fmt=None: AudioFormat fields are positive, the all-zero triple is none
NoneFmt == [sample_rate_hz |-> 0, num_channels |-> 0, bytes_per_sample |-> 0]
\* num_chunks=None
NoneInt == -1
\* filename=None
NoneStr == "None"
\* b'': what a read at end of stream returns, and what push() takes as "close"
EmptyBytes == 0

AudioFormat(sr, ch, bps) ==
    [sample_rate_hz |-> sr, num_channels |-> ch, bytes_per_sample |-> bps]

bytes_per_second(fmt) ==
    fmt.sample_rate_hz * fmt.num_channels * fmt.bytes_per_sample

CD == AudioFormat(44100, 2, 2)

Fmt16k == AudioFormat(16000, 1, 2)

\* a call either returns a value or raises
Ok(v) == [exc |-> "none", val |-> v]
Raise(e) == [exc |-> e, val |-> <<>>]

(* -------------------------- command builders -------------------------- *)

arecord(fmt, filetype, filename, device) ==
    IF fmt = NoneFmt THEN Raise("ValueError")
    ELSE IF filetype \notin {"wav", "raw", "voc", "au"} THEN Raise("ValueError")
    ELSE Ok(<<"arecord", "-q",
              "-t", filetype,
              "-D", device,
              "-c", ToString(fmt.num_channels),
              "-f", "s" \o ToString(8 * fmt.bytes_per_sample),
              "-r", ToString(fmt.sample_rate_hz)>>
            \o (IF filename # NoneStr THEN <<filename>> ELSE <<>>))

\* an aplay that demands a format whatever the file type
aplay_AlwaysNeedsFormat(fmt, filetype, filename, device) ==
    IF fmt = NoneFmt THEN Raise("ValueError")
    ELSE Ok(<<"aplay", "-q", "-t", filetype, "-D", device,
              "-c", ToString(fmt.num_channels),
              "-f", "s" \o ToString(8 * fmt.bytes_per_sample),
              "-r", ToString(fmt.sample_rate_hz)>>
            \o (IF filename # NoneStr THEN <<filename>> ELSE <<>>))

aplay(fmt, filetype, filename, device) ==
    IF filetype = "raw" /\ fmt = NoneFmt THEN Raise("ValueError")
    ELSE Ok(<<"aplay", "-q", "-t", filetype, "-D", device>>
            \o (IF fmt # NoneFmt
                THEN <<"-c", ToString(fmt.num_channels),
                       "-f", "s" \o ToString(8 * fmt.bytes_per_sample),
                       "-r", ToString(fmt.sample_rate_hz)>>
                ELSE <<>>)
            \o (IF filename # NoneStr THEN <<filename>> ELSE <<>>))

(* ------------------------------- state -------------------------------- *)

VARIABLES
    obj,        \* what was constructed: "Recorder", "BytesPlayer", "FilePlayer", "module"
    procs,      \* the child processes spawned so far, in spawn order
    done,       \* Recorder._done
    started,    \* Recorder._started / Player._started
    process,    \* self._process: an index of procs, 0 while the attribute is unset
    runs,       \* record() / play() / popen() calls made on the instance
    gen,        \* the frame of the current record() generator
    wav_file,   \* the file record() opened: its state and the frames written
    yielded,    \* the chunks the current generator has yielded
    pl,         \* the frame of the Player method being run
    push,       \* the push functions play() returned: process -> data pushed
    join,       \* the thread calling join(): pc, how it was called, handle read
    fn          \* the frame of the module-level function being called

vars == <<obj, procs, done, started, process, runs, gen, wav_file, yielded,
          pl, push, join, fn>>

\* the generator's own state, and the Player methods' own state
genVars == <<gen, wav_file, yielded>>
plVars == <<pl, push>>

(* ------------------------------ processes ----------------------------- *)

\* subprocess.Popen(cmd, stdin=..., stdout=...): a running child. K is the
\* number of non-empty chunks its stdout will deliver before end of stream;
\* buf is what the buffered writer of its stdin holds, pipe what the child's
\* input pipe has received, closes the number of times that pipe was closed.
Popen(cmd, stdin, stdout, K) ==
    [cmd |-> cmd, state |-> "running", waited |-> FALSE, terminated |-> FALSE,
     stdin |-> stdin, buf |-> <<>>, pipe |-> <<>>, closes |-> 0,
     stdout |-> stdout, K |-> K, pos |-> 0]

\* a child with no input pipe exits when it pleases; one fed through a pipe
\* plays until it reaches end of stream on it; terminate() ends either
MayExit(p) ==
    /\ procs[p].state = "running"
    /\ \/ procs[p].stdin = "none"
       \/ procs[p].stdin = "closed"
       \/ procs[p].terminated

ProcExit ==
    /\ \E p \in 1..Len(procs) :
          /\ MayExit(p)
          /\ procs' = [procs EXCEPT ![p].state = "exited"]
    /\ UNCHANGED <<obj, done, started, process, runs, genVars, plVars, join, fn>>

(* ------------------------------ Recorder ------------------------------ *)

\* the generator frame: the arguments, the loop's locals, where the
\* environment raises (fault), why the loop was left (cause), the exception
\* that left the generator (exc), and what the run has done so far
NoGen ==
    [pc |-> "none", fmt |-> NoneFmt, num_chunks |-> NoneInt,
     on_start |-> "none", on_stop |-> "none", filename |-> NoneStr,
     fault |-> "none", i |-> 0, data |-> EmptyBytes,
     cause |-> "none", exc |-> "none",
     spawned |-> FALSE, signalled |-> FALSE,
     on_start_calls |-> 0, on_stop_calls |-> 0,
     reads |-> 0, late_reads |-> 0, late_yields |-> 0]

NoFile == [state |-> "none", frames |-> <<>>]

\* the places of a run where the environment may raise
Faults == {"none", "on_start", "read", "write", "on_stop"}

\* the arguments of record(): every combination, a fault only where the
\* callback or the file it needs is given
AllArgs ==
    {a \in [fmt : {NoneFmt, Fmt16k}, num_chunks : {NoneInt} \cup 0..MaxChunks,
            on_start : {"none", "given"}, on_stop : {"none", "given"},
            filename : {NoneStr, "rec.wav"}, fault : Faults] :
        /\ a.fault = "on_start" => a.on_start = "given"
        /\ a.fault = "on_stop" => a.on_stop = "given"
        /\ a.fault = "write" => a.filename # NoneStr}

\* record(fmt, chunk_duration_sec) with the defaults for the rest
PlainArgs ==
    [fmt : {NoneFmt, Fmt16k}, num_chunks : {NoneInt},
     on_start : {"none"}, on_stop : {"none"},
     filename : {NoneStr}, fault : {"none"}]

\* record(fmt, chunk_duration_sec, ...): calling a generator function runs
\* nothing; it only binds the arguments
RecordWith(Args, max) ==
    /\ obj = "Recorder"
    /\ gen.pc \in {"none", "ended"}
    /\ runs < max
    /\ \E a \in Args :
          gen' = [NoGen EXCEPT !.pc = "created", !.fmt = a.fmt,
                               !.num_chunks = a.num_chunks,
                               !.on_start = a.on_start, !.on_stop = a.on_stop,
                               !.filename = a.filename, !.fault = a.fault]
    /\ runs' = runs + 1
    /\ wav_file' = NoFile
    /\ yielded' = <<>>
    /\ UNCHANGED <<obj, procs, done, started, process, plVars, join, fn>>

Record == RecordWith(AllArgs, MaxRecords)

RecordPlain == RecordWith(PlainArgs, MaxRuns)

\* lines 133-139: the first next() runs the body up to the spawn
RecBegin ==
    /\ gen.pc = "created"
    /\ IF gen.fmt = NoneFmt
       THEN \* line 133: fmt.bytes_per_second on None
            /\ gen' = [gen EXCEPT !.pc = "ended", !.cause = "fmt",
                                  !.exc = "AttributeError"]
            /\ UNCHANGED wav_file
       ELSE LET cmd == arecord(gen.fmt, "raw", NoneStr, "default") IN
            IF cmd.exc # "none"
            THEN /\ gen' = [gen EXCEPT !.pc = "ended", !.cause = "fmt",
                                       !.exc = cmd.exc]
                 /\ UNCHANGED wav_file
            ELSE /\ gen' = [gen EXCEPT !.pc = "l141"]
                 /\ wav_file' = IF gen.filename # NoneStr
                                THEN [state |-> "open", frames |-> <<>>]
                                ELSE wav_file
    /\ UNCHANGED <<obj, procs, done, started, process, runs, yielded, plVars,
                   join, fn>>

\* line 141: self._process = subprocess.Popen(cmd, stdout=subprocess.PIPE)
RecSpawn ==
    /\ gen.pc = "l141"
    /\ \E K \in 0..MaxStream :
          procs' = Append(procs,
                          Popen(arecord(gen.fmt, "raw", NoneStr, "default").val,
                                "none", "open", K))
    /\ process' = Len(procs) + 1
    /\ gen' = [gen EXCEPT !.pc = "l142", !.spawned = TRUE]
    /\ UNCHANGED <<obj, done, started, runs, wav_file, yielded, plVars, join, fn>>

\* line 142: self._started.set()
RecSetStarted ==
    /\ gen.pc = "l142"
    /\ started' = TRUE
    /\ gen' = [gen EXCEPT !.pc = "l143", !.signalled = TRUE]
    /\ UNCHANGED <<obj, procs, done, process, runs, wav_file, yielded, plVars,
                   join, fn>>

\* a record() that forgets the on_start callback
RecOnStart_Skipped ==
    /\ gen.pc = "l143"
    /\ gen' = [gen EXCEPT !.pc = "l146"]
    /\ UNCHANGED <<obj, procs, done, started, process, runs, wav_file,
                   yielded, plVars, join, fn>>

\* lines 143-144: on_start(), before the try block is entered
RecOnStart ==
    /\ gen.pc = "l143"
    /\ gen' = IF gen.on_start = "none"
              THEN [gen EXCEPT !.pc = "l146"]
              ELSE IF gen.fault = "on_start"
              THEN [gen EXCEPT !.pc = "ended", !.cause = "on_start",
                               !.exc = "on_start",
                               !.on_start_calls = gen.on_start_calls + 1]
              ELSE [gen EXCEPT !.pc = "l146",
                               !.on_start_calls = gen.on_start_calls + 1]
    /\ UNCHANGED <<obj, procs, done, started, process, runs, wav_file,
                   yielded, plVars, join, fn>>

\* line 146: range(num_chunks) if num_chunks else itertools.count()
Bounded(num_chunks) == num_chunks # NoneInt /\ num_chunks # 0

\* a loop that checks the done flag only before its first iteration
RecLoop_ChecksDoneOnce ==
    /\ gen.pc = "l146"
    /\ gen' = IF Bounded(gen.num_chunks) /\ gen.i >= gen.num_chunks
              THEN [gen EXCEPT !.pc = "l156", !.cause = "exhausted"]
              ELSE IF done /\ gen.i = 0
              THEN [gen EXCEPT !.pc = "l156", !.cause = "done",
                               !.i = gen.i + 1]
              ELSE [gen EXCEPT !.pc = "l149", !.i = gen.i + 1]
    /\ UNCHANGED <<obj, procs, done, started, process, runs, wav_file,
                   yielded, plVars, join, fn>>

\* lines 146-148: the next loop iteration and its check of the done flag
RecLoop ==
    /\ gen.pc = "l146"
    /\ gen' = IF Bounded(gen.num_chunks) /\ gen.i >= gen.num_chunks
              THEN [gen EXCEPT !.pc = "l156", !.cause = "exhausted"]
              ELSE IF done
              THEN [gen EXCEPT !.pc = "l156", !.cause = "done",
                               !.i = gen.i + 1]
              ELSE [gen EXCEPT !.pc = "l149", !.i = gen.i + 1]
    /\ UNCHANGED <<obj, procs, done, started, process, runs, wav_file,
                   yielded, plVars, join, fn>>

\* line 149: self._process.stdout.read(chunk_size) is called and blocks
RecReadStart ==
    /\ gen.pc = "l149"
    /\ gen' = [gen EXCEPT !.pc = "reading", !.reads = gen.reads + 1,
                          !.late_reads = gen.late_reads + (IF done THEN 1 ELSE 0)]
    /\ UNCHANGED <<obj, procs, done, started, process, runs, wav_file,
                   yielded, plVars, join, fn>>

\* lines 149-151: the read returns the next chunk, or b'' at end of stream
RecReadReturn ==
    /\ gen.pc = "reading"
    /\ \/ /\ gen.fault = "read"
          /\ gen' = [gen EXCEPT !.pc = "l156", !.cause = "read",
                                !.exc = "read"]
          /\ UNCHANGED procs
       \/ LET p == procs[process] IN
          IF p.pos < p.K
          THEN /\ procs' = [procs EXCEPT ![process].pos = p.pos + 1]
               /\ gen' = [gen EXCEPT !.pc = "l152", !.data = p.pos + 1]
          ELSE /\ gen' = [gen EXCEPT !.pc = "l156", !.data = EmptyBytes,
                                     !.cause = "eof"]
               /\ UNCHANGED procs
    /\ UNCHANGED <<obj, done, started, process, runs, wav_file, yielded,
                   plVars, join, fn>>

\* a loop that yields the chunk without writing it to the file
RecWrite_Skipped ==
    /\ gen.pc = "l152"
    /\ gen' = [gen EXCEPT !.pc = "l154"]
    /\ UNCHANGED <<obj, procs, done, started, process, runs, wav_file,
                   yielded, plVars, join, fn>>

\* lines 152-153: wav_file.writeframes(data)
RecWrite ==
    /\ gen.pc = "l152"
    /\ IF wav_file.state = "none"
       THEN /\ gen' = [gen EXCEPT !.pc = "l154"]
            /\ UNCHANGED wav_file
       ELSE \/ /\ gen.fault = "write"
               /\ gen' = [gen EXCEPT !.pc = "l156", !.cause = "write",
                                     !.exc = "write"]
               /\ UNCHANGED wav_file
            \/ /\ wav_file' = [wav_file EXCEPT
                                  !.frames = Append(wav_file.frames, gen.data)]
               /\ gen' = [gen EXCEPT !.pc = "l154"]
    /\ UNCHANGED <<obj, procs, done, started, process, runs, yielded, plVars,
                   join, fn>>

\* a loop that goes on to the next chunk without yielding this one
RecYield_DropsChunk ==
    /\ gen.pc = "l154"
    /\ gen' = [gen EXCEPT !.pc = "suspended"]
    /\ UNCHANGED <<obj, procs, done, started, process, runs, wav_file,
                   yielded, plVars, join, fn>>

\* line 154: yield data
RecYield ==
    /\ gen.pc = "l154"
    /\ yielded' = Append(yielded, gen.data)
    /\ gen' = [gen EXCEPT !.pc = "suspended",
                          !.late_yields = gen.late_yields + (IF done THEN 1 ELSE 0)]
    /\ UNCHANGED <<obj, procs, done, started, process, runs, wav_file, plVars,
                   join, fn>>

\* the consumer's next(): the generator resumes after the yield
RecResume ==
    /\ gen.pc = "suspended"
    /\ gen' = [gen EXCEPT !.pc = "l146"]
    /\ UNCHANGED <<obj, procs, done, started, process, runs, wav_file,
                   yielded, plVars, join, fn>>

\* the consumer's close() (or the collection of the suspended generator):
\* GeneratorExit is raised at the yield and the finally block runs
RecClose ==
    /\ gen.pc = "suspended"
    /\ gen' = [gen EXCEPT !.pc = "l156", !.cause = "closed"]
    /\ UNCHANGED <<obj, procs, done, started, process, runs, wav_file,
                   yielded, plVars, join, fn>>

\* line 156: self._process.stdout.close()
RecCloseStream ==
    /\ gen.pc = "l156"
    /\ procs' = [procs EXCEPT ![process].stdout = "closed"]
    /\ gen' = [gen EXCEPT !.pc = "l157"]
    /\ UNCHANGED <<obj, done, started, process, runs, wav_file, yielded,
                   plVars, join, fn>>

\* lines 157-158: on_stop()
RecOnStop ==
    /\ gen.pc = "l157"
    /\ gen' = IF gen.on_stop = "none"
              THEN [gen EXCEPT !.pc = "l159"]
              ELSE IF gen.fault = "on_stop"
              THEN [gen EXCEPT !.pc = "ended", !.exc = "on_stop",
                               !.on_stop_calls = gen.on_stop_calls + 1]
              ELSE [gen EXCEPT !.pc = "l159",
                               !.on_stop_calls = gen.on_stop_calls + 1]
    /\ UNCHANGED <<obj, procs, done, started, process, runs, wav_file,
                   yielded, plVars, join, fn>>

\* lines 159-160: wav_file.close(), and the generator is finished
RecCloseFile ==
    /\ gen.pc = "l159"
    /\ wav_file' = IF wav_file.state = "none" THEN wav_file
                   ELSE [wav_file EXCEPT !.state = "closed"]
    /\ gen' = [gen EXCEPT !.pc = "ended"]
    /\ UNCHANGED <<obj, procs, done, started, process, runs, yielded, plVars,
                   join, fn>>

\* lines 162-163: done() sets the flag
Done ==
    /\ obj = "Recorder"
    /\ done' = TRUE
    /\ UNCHANGED <<obj, procs, started, process, runs, genVars, plVars, join, fn>>

(* ------------------------------- Player ------------------------------- *)

NoCall == [pc |-> "none", op |-> "none", fmt |-> NoneFmt, cmd |-> <<>>,
           stdin |-> "none", exc |-> "none"]

\* lines 209-210: BytesPlayer.play(fmt, device) builds the command, then
\* enters popen(cmd, stdin=subprocess.PIPE)
Play ==
    /\ obj = "BytesPlayer"
    /\ pl.pc \in {"none", "returned", "raised"}
    /\ runs < MaxRuns
    /\ \E fmt \in {NoneFmt, Fmt16k} :
          LET cmd == aplay(fmt, "raw", NoneStr, "default") IN
          pl' = IF cmd.exc # "none"
                THEN [NoCall EXCEPT !.pc = "raised", !.op = "play",
                                    !.fmt = fmt, !.exc = cmd.exc]
                ELSE [NoCall EXCEPT !.pc = "l183", !.op = "play",
                                    !.fmt = fmt, !.cmd = cmd.val,
                                    !.stdin = "open"]
    /\ runs' = runs + 1
    /\ UNCHANGED <<obj, procs, done, started, process, genVars, push, join, fn>>

\* line 182: popen(cmd) called on a Player, no stream redirected
PopenCall ==
    /\ obj \in {"BytesPlayer", "FilePlayer"}
    /\ pl.pc \in {"none", "returned", "raised"}
    /\ runs < MaxRuns
    /\ pl' = [NoCall EXCEPT !.pc = "l183", !.op = "popen",
                            !.cmd = aplay(NoneFmt, "wav", "a.wav", "default").val]
    /\ runs' = runs + 1
    /\ UNCHANGED <<obj, procs, done, started, process, genVars, push, join, fn>>

\* a popen that signals 'started' before it has stored the handle
PopenSpawn_SignalsFirst ==
    /\ pl.pc = "l183"
    /\ started' = TRUE
    /\ pl' = [pl EXCEPT !.pc = "l184"]
    /\ UNCHANGED <<obj, procs, done, process, runs, genVars, push, join, fn>>

\* line 183: self._process = subprocess.Popen(cmd, **kwargs)
PopenSpawn ==
    /\ pl.pc = "l183"
    /\ procs' = Append(procs, Popen(pl.cmd, pl.stdin, "none", 0))
    /\ process' = Len(procs) + 1
    /\ pl' = [pl EXCEPT !.pc = "l184"]
    /\ UNCHANGED <<obj, done, started, runs, genVars, push, join, fn>>

\* lines 184-185 (and 212-217 for play): self._started.set(); the process is
\* returned, and play() returns a push function closed over it
PopenSetStarted ==
    /\ pl.pc = "l184"
    /\ started' = TRUE
    /\ pl' = [pl EXCEPT !.pc = "returned"]
    /\ push' = IF pl.op = "play" THEN push @@ (process :> <<>>) ELSE push
    /\ UNCHANGED <<obj, procs, done, process, runs, genVars, join, fn>>

\* lines 197-202: FilePlayer.play_raw(fmt, filename) and play_wav(filename)
\* are defined without self: called on an instance, the instance is bound to
\* the first parameter and the body's `self` is an undefined name
FilePlay ==
    /\ obj = "FilePlayer"
    /\ pl.pc \in {"none", "returned", "raised"}
    /\ runs < MaxRuns
    /\ \E op \in {"play_raw", "play_wav"} :
          pl' = [NoCall EXCEPT !.pc = "raised", !.op = op, !.fmt = Fmt16k,
                               !.exc = "NameError"]
    /\ runs' = runs + 1
    /\ UNCHANGED <<obj, procs, done, started, process, genVars, push, join, fn>>

\* process.stdin.write(data) on a buffered writer: the data stays in the
\* buffer, or the buffer is flushed to the pipe together with it. A write on
\* a closed stream raises ValueError and writes nothing.
StdinWrite(p, data) ==
    IF p.stdin = "closed" THEN {p}
    ELSE {[p EXCEPT !.buf = Append(p.buf, data)],
          [p EXCEPT !.buf = <<>>, !.pipe = p.pipe \o p.buf \o <<data>>]}

\* process.stdin.close(): flushes the buffer and closes the pipe; closing a
\* closed stream does nothing
StdinClose(p) ==
    IF p.stdin = "closed" THEN p
    ELSE [p EXCEPT !.buf = <<>>, !.pipe = p.pipe \o p.buf,
                   !.stdin = "closed", !.closes = p.closes + 1]

\* a push that tests `data is None`: b'' is written, the pipe is never closed
PushBody_NeverCloses(p, data) ==
    \E q \in StdinWrite(procs[p], data) : procs' = [procs EXCEPT ![p] = q]

\* lines 212-216: the body of push(data), on the process play() spawned
PushBody(p, data) ==
    IF data # EmptyBytes
    THEN \E q \in StdinWrite(procs[p], data) : procs' = [procs EXCEPT ![p] = q]
    ELSE procs' = [procs EXCEPT ![p] = StdinClose(procs[p])]

\* the number of push() calls made so far
RECURSIVE Pushed(_)
Pushed(S) ==
    IF S = {} THEN 0
    ELSE LET p == CHOOSE x \in S : TRUE IN Len(push[p]) + Pushed(S \ {p})

\* a call of a push function: its k-th call passes chunk k, or b''
Push ==
    /\ Pushed(DOMAIN push) < MaxPush
    /\ \E p \in DOMAIN push :
          /\ \E data \in {EmptyBytes, Len(push[p]) + 1} :
                /\ push' = [push EXCEPT ![p] = Append(push[p], data)]
                /\ PushBody(p, data)
    /\ UNCHANGED <<obj, done, started, process, runs, genVars, pl, join, fn>>

(* -------------------------- module functions -------------------------- *)

\* filename_or_bytes: a bytes buffer, a path, or anything else
Sources ==
    {[type |-> "bytes", path |-> NoneStr, data |-> 1],
     [type |-> "str", path |-> "a.snd", data |-> EmptyBytes],
     [type |-> "int", path |-> NoneStr, data |-> EmptyBytes]}

NoArgs == [fmt |-> NoneFmt, filetype |-> "raw", filename |-> NoneStr,
           device |-> "default", wait |-> "none", src |-> [type |-> "int", path |-> NoneStr,
                                     data |-> EmptyBytes]]

\* the frame of a module-level function: its name and arguments, the command
\* it built, how it redirects the child's stdin, the child, and its outcome
NoFn == [pc |-> "none", name |-> "none", args |-> NoArgs, cmd |-> <<>>,
         stdin |-> "none", proc |-> 0, exc |-> "none"]

\* the frame once the statements before Popen have run: the exception they
\* raised, or the command about to be spawned
Frame(name, a, cmd, stdin) ==
    IF cmd.exc # "none"
    THEN [NoFn EXCEPT !.pc = "raised", !.name = name, !.args = a,
                      !.exc = cmd.exc]
    ELSE [NoFn EXCEPT !.pc = "popen", !.name = name, !.args = a,
                      !.cmd = cmd.val, !.stdin = stdin]

\* lines 66-68
record_file_async(name, a) ==
    Frame(name, a, arecord(a.fmt, a.filetype, a.filename, "default"), "none")

\* lines 71-75
record_file(name, a) ==
    IF a.wait = "none" THEN Frame(name, a, Raise("ValueError"), "none")
    ELSE record_file_async(name, a)

\* a play_wav_async that passes a format to the command builder
play_wav_async_WithFormat(name, a) ==
    IF a.src.type = "bytes"
    THEN Frame(name, a, aplay(CD, "wav", NoneStr, "default"), "open")
    ELSE IF a.src.type = "str"
    THEN Frame(name, a, aplay(NoneFmt, "wav", a.src.path, "default"), "none")
    ELSE Frame(name, a, Raise("ValueError"), "none")

\* lines 81-92
play_wav_async(name, a) ==
    IF a.src.type = "bytes"
    THEN Frame(name, a, aplay(NoneFmt, "wav", NoneStr, "default"), "open")
    ELSE IF a.src.type = "str"
    THEN Frame(name, a, aplay(NoneFmt, "wav", a.src.path, "default"), "none")
    ELSE Frame(name, a, Raise("ValueError"), "none")

\* lines 95-96
play_wav(name, a) == play_wav_async(name, a)

\* lines 99-110: the path branch passes filename=filename, a name that is
\* neither a parameter nor a global of the module
play_raw_async(name, a) ==
    IF a.src.type = "bytes"
    THEN Frame(name, a, aplay(a.fmt, "raw", NoneStr, "default"), "open")
    ELSE IF a.src.type = "str"
    THEN Frame(name, a, Raise("NameError"), "none")
    ELSE Frame(name, a, Raise("ValueError"), "none")

\* lines 113-114: the argument list play_raw_async(fmt, filename) names the
\* same undefined name
play_raw(name, a) == Frame(name, a, Raise("NameError"), "none")

RecordFormats == {NoneFmt, Fmt16k, CD}
FileTypes == {"wav", "raw", "voc", "au", "mp3"}

CallRecordFileAsync ==
    /\ obj = "module" /\ fn.pc = "none"
    /\ \E fmt \in RecordFormats, ft \in FileTypes :
          fn' = record_file_async("record_file_async",
                    [NoArgs EXCEPT !.fmt = fmt, !.filetype = ft,
                                   !.filename = "out.snd"])
    /\ UNCHANGED <<obj, procs, done, started, process, runs, genVars, plVars, join>>

CallRecordFile ==
    /\ obj = "module" /\ fn.pc = "none"
    /\ \E fmt \in RecordFormats, ft \in FileTypes,
          w \in {"none", "given", "raises"} :
          fn' = record_file("record_file",
                    [NoArgs EXCEPT !.fmt = fmt, !.filetype = ft,
                                   !.filename = "out.snd", !.wait = w])
    /\ UNCHANGED <<obj, procs, done, started, process, runs, genVars, plVars, join>>

CallPlayWavAsync ==
    /\ obj = "module" /\ fn.pc = "none"
    /\ \E src \in Sources :
          fn' = play_wav_async("play_wav_async", [NoArgs EXCEPT !.src = src])
    /\ UNCHANGED <<obj, procs, done, started, process, runs, genVars, plVars, join>>

CallPlayWav ==
    /\ obj = "module" /\ fn.pc = "none"
    /\ \E src \in Sources :
          fn' = play_wav("play_wav", [NoArgs EXCEPT !.src = src])
    /\ UNCHANGED <<obj, procs, done, started, process, runs, genVars, plVars, join>>

CallPlayRawAsync ==
    /\ obj = "module" /\ fn.pc = "none"
    /\ \E fmt \in RecordFormats, src \in Sources :
          fn' = play_raw_async("play_raw_async",
                    [NoArgs EXCEPT !.fmt = fmt, !.src = src])
    /\ UNCHANGED <<obj, procs, done, started, process, runs, genVars, plVars, join>>

CallPlayRaw ==
    /\ obj = "module" /\ fn.pc = "none"
    /\ \E fmt \in RecordFormats, src \in Sources :
          fn' = play_raw("play_raw", [NoArgs EXCEPT !.fmt = fmt, !.src = src])
    /\ UNCHANGED <<obj, procs, done, started, process, runs, genVars, plVars, join>>

\* where a function goes once its child is spawned, and once the buffer is
\* written
AfterPopen(f) ==
    IF f.stdin = "open" THEN "write"
    ELSE IF f.name = "record_file" THEN "l76"
    ELSE IF f.name \in {"play_wav", "play_raw"} THEN "wait"
    ELSE "returned"

AfterWrite(f) ==
    IF f.name \in {"play_wav", "play_raw"} THEN "wait" ELSE "returned"

\* lines 68, 84, 90, 102: subprocess.Popen(cmd) or Popen(cmd, stdin=PIPE)
FnPopen ==
    /\ fn.pc = "popen"
    /\ procs' = Append(procs, Popen(fn.cmd, fn.stdin, "none", 0))
    /\ fn' = [fn EXCEPT !.pc = AfterPopen(fn), !.proc = Len(procs) + 1]
    /\ UNCHANGED <<obj, done, started, process, runs, genVars, plVars, join>>

\* lines 85, 103: process.stdin.write(filename_or_bytes)
FnWrite ==
    /\ fn.pc = "write"
    /\ \E q \in StdinWrite(procs[fn.proc], fn.args.src.data) :
          procs' = [procs EXCEPT ![fn.proc] = q]
    /\ fn' = [fn EXCEPT !.pc = AfterWrite(fn)]
    /\ UNCHANGED <<obj, done, started, process, runs, genVars, plVars, join>>

\* line 76: wait() is called
FnWaitCalled ==
    /\ fn.pc = "l76"
    /\ fn' = [fn EXCEPT !.pc = "in_wait"]
    /\ UNCHANGED <<obj, procs, done, started, process, runs, genVars, plVars, join>>

\* line 76: wait() returns, or raises and record_file ends there
FnWaitReturned ==
    /\ fn.pc = "in_wait"
    /\ fn' = IF fn.args.wait = "raises"
             THEN [fn EXCEPT !.pc = "raised", !.exc = "wait"]
             ELSE [fn EXCEPT !.pc = "l77"]
    /\ UNCHANGED <<obj, procs, done, started, process, runs, genVars, plVars, join>>

\* line 77: process.terminate()
FnTerminate ==
    /\ fn.pc = "l77"
    /\ procs' = [procs EXCEPT ![fn.proc].terminated = TRUE]
    /\ fn' = [fn EXCEPT !.pc = "l78"]
    /\ UNCHANGED <<obj, done, started, process, runs, genVars, plVars, join>>

\* a process.wait() that returns at once
FnProcessWait_ReturnsAtOnce ==
    /\ fn.pc \in {"l78", "wait"}
    /\ procs' = [procs EXCEPT ![fn.proc].waited = TRUE]
    /\ fn' = [fn EXCEPT !.pc = "returned"]
    /\ UNCHANGED <<obj, done, started, process, runs, genVars, plVars, join>>

\* lines 78, 96, 114: process.wait() returns once the child has exited
FnProcessWait ==
    /\ fn.pc \in {"l78", "wait"}
    /\ procs[fn.proc].state = "exited"
    /\ procs' = [procs EXCEPT ![fn.proc].waited = TRUE]
    /\ fn' = [fn EXCEPT !.pc = "returned"]
    /\ UNCHANGED <<obj, done, started, process, runs, genVars, plVars, join>>

\* the arguments the command builders are called with: every format used in
\* the module, absent included; the four capture file types, and strings
\* outside them
BuildFormats == {NoneFmt, Fmt16k, CD}
BuildFileTypes == {"wav", "raw", "voc", "au", "mp3", "WAV", ""}
BuildArgs ==
    {[NoArgs EXCEPT !.fmt = fmt, !.filetype = ft, !.filename = file,
                    !.device = dev] :
        fmt \in BuildFormats, ft \in BuildFileTypes,
        file \in {NoneStr, "a.snd"}, dev \in {"default", "hw:1"}}

\* the frame of a command builder that has run: the list it returned, or the
\* exception it raised
Built(name, a, cmd) ==
    IF cmd.exc # "none"
    THEN [NoFn EXCEPT !.pc = "raised", !.name = name, !.args = a,
                      !.exc = cmd.exc]
    ELSE [NoFn EXCEPT !.pc = "returned", !.name = name, !.args = a,
                      !.cmd = cmd.val]

\* lines 31-49: arecord(fmt, filetype, filename, device) called directly
CallArecord ==
    /\ obj = "module" /\ fn.pc \in {"none", "returned", "raised"}
    /\ \E a \in BuildArgs :
          fn' = Built("arecord", a,
                      arecord(a.fmt, a.filetype, a.filename, a.device))
    /\ UNCHANGED <<obj, procs, done, started, process, runs, genVars, plVars, join>>

\* lines 52-64: aplay(fmt, filetype, filename, device) called directly
CallAplay ==
    /\ obj = "module" /\ fn.pc \in {"none", "returned", "raised"}
    /\ \E a \in BuildArgs :
          fn' = Built("aplay", a,
                      aplay(a.fmt, a.filetype, a.filename, a.device))
    /\ UNCHANGED <<obj, procs, done, started, process, runs, genVars, plVars, join>>

(* ------------------------- join() and __exit__ ------------------------ *)

NoJoin == [pc |-> "idle", via |-> "none", handle |-> 0]

\* join() called directly, or by __exit__ at the end of a with block
JoinCall ==
    /\ obj \in {"Recorder", "BytesPlayer", "FilePlayer"}
    /\ join.pc = "idle"
    /\ \E via \in {"join", "__exit__"} :
          join' = [pc |-> "l166", via |-> via, handle |-> 0]
    /\ UNCHANGED <<obj, procs, done, started, process, runs, genVars, plVars, fn>>

\* lines 166 / 188: self._started.wait(), then the read of self._process
JoinStarted ==
    /\ join.pc = "l166"
    /\ started
    /\ join' = [join EXCEPT !.pc = "l167", !.handle = process]
    /\ UNCHANGED <<obj, procs, done, started, process, runs, genVars, plVars, fn>>

\* a join() that polls the child instead of waiting for it
JoinWait_Polls ==
    /\ join.pc = "l167"
    /\ procs' = [procs EXCEPT ![join.handle].waited = (procs[join.handle].state = "exited")]
    /\ join' = [join EXCEPT !.pc = "returned"]
    /\ UNCHANGED <<obj, done, started, process, runs, genVars, plVars, fn>>

\* lines 167 / 189: self._process.wait() returns once that child has exited
JoinWait ==
    /\ join.pc = "l167"
    /\ procs[join.handle].state = "exited"
    /\ procs' = [procs EXCEPT ![join.handle].waited = TRUE]
    /\ join' = [join EXCEPT !.pc = "returned"]
    /\ UNCHANGED <<obj, done, started, process, runs, genVars, plVars, fn>>

(* ---------------------------- specifications -------------------------- *)

Constructed(objs) ==
    /\ obj \in objs
    /\ procs = <<>>
    /\ done = FALSE
    /\ started = FALSE
    /\ process = 0
    /\ runs = 0
    /\ gen = NoGen
    /\ wav_file = NoFile
    /\ yielded = <<>>
    /\ pl = NoCall
    /\ push = <<>>
    /\ join = NoJoin
    /\ fn = NoFn

\* a Recorder, a thread consuming record() called with any arguments, and a
\* thread calling done()
InitRecord == Constructed({"Recorder"})

NextRecord ==
    \/ Record
    \/ RecBegin
    \/ RecSpawn
    \/ RecSetStarted
    \/ RecOnStart
    \/ RecLoop
    \/ RecReadStart
    \/ RecReadReturn
    \/ RecWrite
    \/ RecYield
    \/ RecResume
    \/ RecClose
    \/ RecCloseStream
    \/ RecOnStop
    \/ RecCloseFile
    \/ Done

SpecRecord == InitRecord /\ [][NextRecord]_vars

\* a Recorder or a Player, the thread driving it, the children, and a thread
\* calling join() or leaving the with block
InitJoin == Constructed({"Recorder", "BytesPlayer", "FilePlayer"})

NextJoin ==
    \/ RecordPlain
    \/ RecBegin
    \/ RecSpawn
    \/ RecSetStarted
    \/ RecOnStart
    \/ RecLoop
    \/ RecReadStart
    \/ RecReadReturn
    \/ RecWrite
    \/ RecYield
    \/ RecResume
    \/ RecClose
    \/ RecCloseStream
    \/ RecOnStop
    \/ RecCloseFile
    \/ Play
    \/ PopenCall
    \/ FilePlay
    \/ PopenSpawn
    \/ PopenSetStarted
    \/ Push
    \/ ProcExit
    \/ JoinCall
    \/ JoinStarted
    \/ JoinWait

SpecJoin == InitJoin /\ [][NextJoin]_vars

\* one call of a public operation, with valid and invalid arguments: a
\* function of the module, Recorder.record, BytesPlayer.play, or a method of
\* FilePlayer
InitCall == Constructed({"module", "Recorder", "BytesPlayer", "FilePlayer"})

NextCall ==
    \/ CallRecordFileAsync
    \/ CallRecordFile
    \/ CallPlayWavAsync
    \/ CallPlayWav
    \/ CallPlayRawAsync
    \/ CallPlayRaw
    \/ FnPopen
    \/ FnWrite
    \/ FnWaitCalled
    \/ FnWaitReturned
    \/ FnTerminate
    \/ FnProcessWait
    \/ ProcExit
    \/ Record
    \/ RecBegin
    \/ RecSpawn
    \/ RecSetStarted
    \/ RecOnStart
    \/ RecLoop
    \/ RecReadStart
    \/ RecReadReturn
    \/ RecWrite
    \/ RecYield
    \/ RecResume
    \/ RecClose
    \/ RecCloseStream
    \/ RecOnStop
    \/ RecCloseFile
    \/ Play
    \/ FilePlay
    \/ PopenSpawn
    \/ PopenSetStarted

SpecCall == InitCall /\ [][NextCall]_vars

\* the same, where the calling thread and the children keep running: a step
\* that stays possible is eventually taken
SpecCallFair == SpecCall /\ WF_vars(NextCall)


\* a caller of the command builders, any number of times,
\* with any arguments
InitBuild == Constructed({"module"})

NextBuild ==
    \/ CallArecord
    \/ CallAplay

SpecBuild == InitBuild /\ [][NextBuild]_vars

(* ------------------------------- claims ------------------------------- *)

Min(a, b) == IF a < b THEN a ELSE b

\* the run of record() is over and nothing but the loop ended it
EndedNormally ==
    gen.pc = "ended" /\ gen.exc = "none" /\ gen.cause \in {"exhausted", "eof"}

\* C1: for every num_chunks N >= 0 and every capture stream that delivers K
\* non-empty chunks and then a zero-length read, with done() never called,
\* the sequence yields exactly min(N, K) chunks and then ends.
C1_YieldsMinOfNumChunksAndStream ==
    (EndedNormally /\ ~done /\ gen.num_chunks # NoneInt)
        => Len(yielded) = Min(gen.num_chunks, procs[process].K)

\* C2: on every path by which a record() run that has begun ends (num_chunks
\* exhausted, done observed, zero-length read, the consumer's close, or an
\* exception of on_start, a read, the file write or on_stop), the capture
\* stream is closed, on_stop (if given) was invoked and the file (if opened)
\* is closed.
C2_CleanupOnEveryExit ==
    (gen.pc = "ended" /\ gen.cause \in {"exhausted", "done", "eof", "closed",
                                        "on_start", "read", "write"})
        => /\ procs[process].stdout = "closed"
           /\ gen.on_stop = "given" => gen.on_stop_calls >= 1
           /\ wav_file.state # "open"

\* C3 as claimed: under any interleaving of the consumer and a thread
\* calling done(), once done() has returned the sequence yields at most one
\* further chunk and starts no read after the flag was set.
C3_NoReadStartsAfterDone ==
    gen.late_yields <= 1 /\ gen.late_reads = 0

\* C3 as amended: once done() has returned the sequence yields at most one
\* further chunk and starts at most one further read, the read of an
\* iteration whose check of the flag (line 147) came before done().
C3_AtMostOneReadAfterDone ==
    /\ gen.late_yields <= 1
    /\ gen.late_reads <= 1
    /\ (done /\ gen.pc = "l146") => gen.late_reads + gen.late_yields <= 2

C3_Witness ==
    done /\ gen.pc = "ended" /\ gen.cause = "done"
         /\ gen.late_reads = 1 /\ gen.late_yields = 1

\* C4: whenever a Recorder is used as a scoped resource, when the scope exit
\* completes every child process this recorder spawned has exited and been
\* waited on (the exit being join(), it completes once the child exits).
C4_ScopeExitAwaitsEveryChild ==
    [][(obj = "Recorder" /\ join.via = "__exit__"
        /\ join.pc = "l167" /\ join'.pc = "returned")
       => \A p \in 1..Len(procs') :
             procs'[p].state = "exited" /\ procs'[p].waited]_vars

\* C5 as claimed: join() never returns while the instance's child process
\* is unspawned or still running: when it returns, 'started' is set and the
\* process the instance holds has exited.
C5_JoinAwaitsHeldProcess ==
    [][(join.pc = "l167" /\ join'.pc = "returned")
       => /\ started'
          /\ process' # 0
          /\ procs'[process'].state = "exited"]_vars

\* C5 as amended: a join() that returns is preceded by the 'started' signal
\* and by the exit of the process whose handle it read from the instance
\* after 'started'; a later record() or popen() may have replaced that handle
\* with a process that is still running.
C5_JoinAwaitsReadProcess ==
    join.pc = "returned"
        => /\ started
           /\ join.handle \in 1..Len(procs)
           /\ procs[join.handle].state = "exited"
           /\ procs[join.handle].waited

C5_Witness ==
    /\ join.pc = "returned"
    /\ process # join.handle
    /\ procs[process].state = "running"

\* C6: in every record() run the capture process is spawned first, then
\* 'started' is signalled, then on_start (if given) is invoked exactly once,
\* and only then does the first read occur.
C6_SpawnStartedOnStartRead ==
    /\ gen.signalled => (gen.spawned /\ started /\ process \in 1..Len(procs))
    /\ gen.on_start_calls >= 1 => gen.signalled
    /\ gen.on_start_calls <= 1
    /\ gen.reads >= 1 =>
          /\ gen.signalled
          /\ gen.on_start_calls = (IF gen.on_start = "given" THEN 1 ELSE 0)

C6_Witness ==
    gen.reads >= 1 /\ gen.on_start = "given" /\ gen.pc = "reading"

\* C7: when record() is given a filename, at every point of the run the
\* chunks written to the file are the chunks yielded so far, in order, plus
\* at most the one chunk about to be yielded; when the run ends they are
\* equal.
C7_FileTeeFollowsYields ==
    gen.filename # NoneStr
        => \/ wav_file.frames = yielded
           \/ /\ gen.pc = "l154"
              /\ wav_file.frames = Append(yielded, gen.data)

C7_Witness ==
    /\ gen.pc = "ended" /\ gen.filename # NoneStr
    /\ wav_file.state = "closed" /\ yielded = <<1, 2>>

\* non-empty chunks, then one empty push
ChunksThenClose(h) ==
    /\ Len(h) >= 1
    /\ h[Len(h)] = EmptyBytes
    /\ \A i \in 1..(Len(h) - 1) : h[i] # EmptyBytes

\* C8: for the push function play() returned and every sequence of
\* non-empty chunks pushed and then one empty push, the playback process's
\* input pipe receives exactly those chunks, once each and in push order,
\* and is then closed exactly once, nothing being written after the close.
C8_PushWritesThenClosesOnce ==
    \A p \in DOMAIN push :
        ChunksThenClose(push[p])
            => /\ procs[p].pipe = SubSeq(push[p], 1, Len(push[p]) - 1)
               /\ procs[p].buf = <<>>
               /\ procs[p].stdin = "closed"
               /\ procs[p].closes = 1

C8_Witness ==
    \E p \in DOMAIN push : push[p] = <<1, 2, EmptyBytes>>

\* the calls of the module's functions that C9 names as invalid
InvalidCall(f) ==
    \/ /\ f.name \in {"record_file", "record_file_async"}
       /\ \/ f.args.fmt = NoneFmt
          \/ f.args.filetype \notin {"wav", "raw", "voc", "au"}
    \/ f.name = "record_file" /\ f.args.wait = "none"
    \/ /\ f.name = "play_raw_async"
       /\ f.args.fmt = NoneFmt \/ f.args.src.type \notin {"bytes", "str"}
    \/ f.name = "play_wav_async" /\ f.args.src.type \notin {"bytes", "str"}

\* C9: every call of a public operation with invalid arguments (record,
\* record_file, record_file_async with an absent format or a bad file type;
\* record_file with no wait callback; play_raw_async or BytesPlayer.play with
\* an absent format; play_wav_async or play_raw_async with a source neither
\* bytes nor a path) fails with ValueError and spawns no subprocess.
C9_InvalidArgumentsRaiseValueError ==
    /\ (fn.pc # "none" /\ InvalidCall(fn))
          => (fn.pc = "raised" /\ fn.exc = "ValueError" /\ procs = <<>>)
    /\ (gen.pc \notin {"none", "created"} /\ gen.fmt = NoneFmt)
          => (gen.pc = "ended" /\ gen.exc = "ValueError" /\ procs = <<>>)
    /\ (pl.op = "play" /\ pl.fmt = NoneFmt)
          => (pl.pc = "raised" /\ pl.exc = "ValueError" /\ procs = <<>>)

\* C10: play_raw_async(fmt, path) with a path and a format spawns exactly
\* one playback process whose command has file type raw, the format flags
\* and that path; play_raw(fmt, source) with bytes or a path does the same
\* and returns only after that process has exited.
C10_PlayRawPlaysThePath ==
    (/\ fn.name \in {"play_raw_async", "play_raw"}
     /\ fn.pc \in {"returned", "raised"}
     /\ fn.args.fmt # NoneFmt
     /\ \/ fn.args.src.type = "str"
        \/ fn.name = "play_raw" /\ fn.args.src.type = "bytes")
        => /\ fn.exc = "none"
           /\ Len(procs) = 1
           /\ procs[1].cmd =
                 aplay(fn.args.fmt, "raw", fn.args.src.path, "default").val
           /\ fn.name = "play_raw" => procs[1].state = "exited"

\* C11: play_wav given a byte buffer eventually returns, and has then
\* handed the playback process the whole buffer and seen it exit, the
\* playback process exiting once it reaches end of stream on its input pipe.
C11_PlayWavBytesReturns ==
    (fn.name = "play_wav" /\ fn.args.src.type = "bytes")
        ~> /\ fn.pc = "returned"
           /\ procs[fn.proc].pipe = <<fn.args.src.data>>
           /\ procs[fn.proc].state = "exited"

\* the elements of a command
Elements(cmd) == {cmd[i] : i \in 1..Len(cmd)}

\* C12: play_wav_async given a byte buffer spawns exactly one subprocess,
\* whose command has file type wav, no format flags and no filename, writes
\* the whole buffer to that process's input stream in one write, and returns
\* the process without waiting for it.
C12_PlayWavAsyncBytes ==
    (fn.name = "play_wav_async" /\ fn.args.src.type = "bytes"
     /\ fn.pc \in {"returned", "raised"})
        => /\ fn.pc = "returned"
           /\ Len(procs) = 1 /\ fn.proc = 1
           /\ procs[1].cmd = <<"aplay", "-q", "-t", "wav", "-D", "default">>
           /\ Elements(procs[1].cmd) \cap {"-c", "-f", "-r"} = {}
           /\ procs[1].stdin = "open"
           /\ procs[1].pipe \o procs[1].buf = <<fn.args.src.data>>
           /\ ~procs[1].waited

C12_Witness ==
    /\ fn.name = "play_wav_async" /\ fn.args.src.type = "bytes"
    /\ fn.pc = "returned"
    /\ procs[1].state = "running" /\ procs[1].buf = <<fn.args.src.data>>

\* C13: FilePlayer.play_raw(fmt, filename) and play_wav(filename), called on
\* an instance, each spawn one playback process through popen with the
\* matching command (raw with format flags, wav without them) and signal
\* started, so that a following join() has a process to wait for.
C13_FilePlayerSpawnsThroughPopen ==
    (pl.op \in {"play_raw", "play_wav"} /\ pl.pc \in {"returned", "raised"})
        => /\ pl.pc = "returned"
           /\ started
           /\ process \in 1..Len(procs)
           /\ procs[process].cmd =
                 IF pl.op = "play_raw"
                 THEN aplay(pl.fmt, "raw", "a.raw", "default").val
                 ELSE aplay(NoneFmt, "wav", "a.wav", "default").val

\* the children the instance has spawned that have not exited
Running == {i \in 1..Len(procs) : procs[i].state = "running"}

\* C14: after any sequence of record() and popen() calls, the instance has
\* at most one child process that it spawned and that is still running.
C14_AtMostOneRunningChild == Cardinality(Running) <= 1

\* C15: over all formats, present or absent, and all file types, arecord
\* raises ValueError exactly when the format is absent or the file type is
\* outside wav, raw, voc, au; aplay raises ValueError exactly when the file
\* type is raw and the format is absent, and a command it builds for an
\* absent format has no channel, sample-format or sample-rate flag.
C15_BuildersRejectExactlyInvalid ==
    /\ fn.name = "arecord"
          => /\ fn.exc \in {"none", "ValueError"}
             /\ fn.exc = "ValueError"
                   <=> \/ fn.args.fmt = NoneFmt
                       \/ fn.args.filetype \notin {"wav", "raw", "voc", "au"}
    /\ fn.name = "aplay"
          => /\ fn.exc \in {"none", "ValueError"}
             /\ fn.exc = "ValueError"
                   <=> (fn.args.filetype = "raw" /\ fn.args.fmt = NoneFmt)
             /\ (fn.pc = "returned" /\ fn.args.fmt = NoneFmt)
                   => Elements(fn.cmd) \cap {"-c", "-f", "-r"} = {}

C15_Witness ==
    /\ fn.name = "aplay" /\ fn.pc = "returned"
    /\ fn.args.fmt = NoneFmt /\ fn.args.filetype = "mp3"
    /\ fn.cmd = <<"aplay", "-q", "-t", "mp3", "-D", "hw:1", "a.snd">>

\* C16: in a run of record_file with a wait callback the capture process is
\* spawned, then the callback is called, then it returns, then terminate()
\* is sent, then the exit of the process is awaited, then record_file
\* returns: terminate() is never sent before the callback has returned, and
\* record_file never returns while the process is running.
C16_RecordFileOrder ==
    fn.name = "record_file"
        => /\ fn.pc \in {"l76", "in_wait", "l77", "l78", "returned"}
                 => fn.proc = 1 /\ Len(procs) = 1
           /\ fn.pc \in {"none", "popen"} => procs = <<>>
           /\ \A p \in 1..Len(procs) :
                 /\ procs[p].terminated => fn.pc \in {"l78", "returned"}
                 /\ procs[p].waited => fn.pc = "returned"
           /\ fn.pc \in {"l78", "returned"} => procs[fn.proc].terminated
           /\ fn.pc = "returned"
                 => /\ procs[fn.proc].state = "exited"
                    /\ procs[fn.proc].waited

C16_Witness ==
    /\ fn.name = "record_file" /\ fn.args.wait = "given"
    /\ fn.pc = "returned"
    /\ procs[fn.proc].terminated /\ procs[fn.proc].state = "exited"

\* C17: under any interleaving of a thread driving record() or popen() and
\* a thread calling join() on the same instance, 'started' is signalled only
\* after the process handle has been stored, so a join() that has passed the
\* 'started' wait has read a process handle.
C17_JoinFindsHandle ==
    /\ started => process \in 1..Len(procs)
    /\ join.pc \in {"l167", "returned"} => join.handle \in 1..Len(procs)
    /\ gen.pc = "l142" => (process = Len(procs) /\ process > 0)
    /\ pl.pc = "l184" => (process = Len(procs) /\ process > 0)

C17_Witness ==
    /\ join.pc = "l167" /\ join.handle = 1
    /\ procs[1].state = "running"
    /\ \/ gen.pc = "l143"
       \/ pl.pc = "returned" /\ runs = 1

\* the run of record() is in its finally block or over
Finishing == gen.pc \in {"l156", "l157", "l159", "ended"}

\* C18: the 'done' and 'started' flags of a Recorder are never cleared; once
\* done() has been called, every record() run with a format, begun before or
\* after the call, still spawns a capture process and invokes on_start and
\* on_stop (if given), and performs no read and yields no chunk once it has
\* observed the flag.
C18_DoneStopsReadsOnly ==
    /\ [][(done => done') /\ (started => started')]_vars
    /\ [][(gen.cause = "done" /\ gen'.cause = "done")
             => (gen'.reads = gen.reads /\ yielded' = yielded)]_vars
    /\ [](gen.cause = "done" => Finishing)
    /\ []((done /\ gen.pc = "ended" /\ gen.fmt # NoneFmt)
             => /\ gen.spawned /\ gen.signalled
                /\ gen.on_start = "given" => gen.on_start_calls = 1
                /\ gen.on_stop = "given" => gen.on_stop_calls = 1)

\* the reads of the run that have returned: those started, less the one in
\* flight or the one that raised
ReadsReturned ==
    gen.reads - (IF gen.pc = "reading" \/ gen.cause = "read" THEN 1 ELSE 0)

\* C19 as claimed: record() never drops data it has read: every non-empty
\* read is yielded before the loop checks the done flag or the chunk count
\* again, so the reads performed are the chunks yielded plus at most one
\* final zero-length read.
C19_EveryReadYielded ==
    /\ ReadsReturned - Len(yielded) \in {0, 1}
    /\ gen.pc = "l146" => ReadsReturned = Len(yielded)
    /\ Finishing
          => ReadsReturned = Len(yielded) + (IF gen.cause = "eof" THEN 1 ELSE 0)

\* C19 as amended: every non-empty read is yielded before the loop checks
\* the done flag or the chunk count again, unless writing it to the file
\* raises: the run then ends with that exception and the chunk is not
\* yielded. The reads performed are the chunks yielded plus at most one final
\* read, zero-length or of the chunk whose write raised.
C19_EveryReadYieldedUnlessWriteRaises ==
    /\ ReadsReturned - Len(yielded) \in {0, 1}
    /\ gen.pc = "l146" => ReadsReturned = Len(yielded)
    /\ Finishing
          => ReadsReturned = Len(yielded)
                 + (IF gen.cause \in {"eof", "write"} THEN 1 ELSE 0)
    /\ gen.cause = "write"
          => /\ gen.exc = "write" /\ gen.fault = "write"
             /\ gen.data # EmptyBytes
             /\ \A k \in 1..Len(yielded) : yielded[k] # gen.data
             /\ \A k \in 1..Len(wav_file.frames) : wav_file.frames[k] # gen.data

C19_Witness ==
    /\ gen.pc = "ended" /\ gen.cause = "write"
    /\ Len(yielded) = 1 /\ gen.reads = 2 /\ gen.data = 2

=============================================================================
